---- MODULE Spec2Model ----
(***************************************************************************)
(* A model of flenv: typed flag descriptors (Flag[T]), the parser's        *)
(* registry (Parser.flags / Parser.flagIndex) and the resolution pass      *)
(* (Parser.parse) that layers defaults, environment values and             *)
(* command-line tokens.                                                    *)
(*                                                                         *)
(* Texts (tokens, flag names, environment names and values) are sequences  *)
(* of one-character strings, so that prefix tests, the split at "=" and    *)
(* the numeric and boolean parsers are computed character by character.    *)
(***************************************************************************)
EXTENDS Integers, Sequences, FiniteSets, TLC

VARIABLES
    popts,      \* Parser options fixed by New: autoEnv, appVersion, flag names, prefix
    heap,       \* the reachable Flag[T] objects; a descriptor's id is its index
    flags,      \* Parser.flags: sequence of descriptor ids
    flagIndex,  \* Parser.flagIndex: function from registered names to descriptor ids
    regOrder,   \* history: descriptor ids in the order registerFlag accepted them
    env,        \* the process environment: function from the names present to values
    pc,         \* "idle" | "scan" (inside parse's token loop) | "done" | "halted"
    input,      \* the argument list the current/last parse call was given
    args,       \* parse's local args: the tokens not yet consumed
    parseErrs,  \* parse's local parseErrs (its return value once pc is done/halted)
    setCalls,   \* history: the <<name, value>> pairs parse handed to Parser.set
    checkErrs,  \* the value returned by the last checkRequiredFlags call
    panicked,   \* whether the last call panicked (recovered by the caller)
    lastCall,   \* history: the last operation called, with its receiver
    output,     \* what Parse has written to os.Stdout / os.Stderr, block by block
    exitStatus  \* "running" | "returned" (Parse came back) | "exit 0" | "exit 1"

vars == << popts, heap, flags, flagIndex, regOrder, env, pc, input, args,
           parseErrs, setCalls, checkErrs, panicked, lastCall, output, exitStatus >>

----------------------------------------------------------------------------
(* Bounds of the model.                                                    *)

\* longest argument list handed to parse in SpecParse
MaxArgs == 3
\* longest argument list handed to parse in Spec (the whole-program run)
MaxRunArgs == 2

----------------------------------------------------------------------------
(* Texts.                                                                  *)

Marker == << "-", "-" >>
EmptyText == << >>
TrueText == << "t", "r", "u", "e" >>

\* strings.HasPrefix
HasPrefix(s, prefix) ==
    /\ Len(s) >= Len(prefix)
    /\ SubSeq(s, 1, Len(prefix)) = prefix

\* strings.TrimPrefix
TrimPrefix(s, prefix) ==
    IF HasPrefix(s, prefix) THEN SubSeq(s, Len(prefix) + 1, Len(s)) ELSE s

\* strings.LastIndex in place of strings.Index
LastIndex(s, ch) ==
    IF \E i \in 1..Len(s) : s[i] = ch
    THEN (CHOOSE i \in 1..Len(s) : s[i] = ch /\ \A j \in (i + 1)..Len(s) : s[j] # ch) - 1
    ELSE -1

\* strings.Index for a one-character needle: the 0-based index of its first
\* occurrence, or -1
Index(s, ch) ==
    IF \E i \in 1..Len(s) : s[i] = ch
    THEN (CHOOSE i \in 1..Len(s) : s[i] = ch /\ \A j \in 1..(i - 1) : s[j] # ch) - 1
    ELSE -1

\* strings.Join(list, " ")
RECURSIVE Join(_)
Join(list) ==
    IF list = << >> THEN EmptyText
    ELSE IF Len(list) = 1 THEN list[1]
    ELSE list[1] \o << " " >> \o Join(Tail(list))

\* strings.ToUpper on the letters the model's flag names use
ToUpperChar(c) ==
    CASE c = "n" -> "N"
      [] c = "s" -> "S"
      [] c = "v" -> "V"
      [] c = "h" -> "H"
      [] c = "e" -> "E"
      [] c = "l" -> "L"
      [] c = "p" -> "P"
      [] c = "r" -> "R"
      [] c = "i" -> "I"
      [] c = "o" -> "O"
      [] c = "u" -> "U"
      [] c = "t" -> "T"
      [] c = "x" -> "X"
      [] OTHER -> c

\* New's default envVarFormatter: strings.ReplaceAll(strings.ToUpper(s), "-", "_")
DefaultEnvVarFormatter(s) ==
    [i \in 1..Len(s) |-> IF ToUpperChar(s[i]) = "-" THEN "_" ELSE ToUpperChar(s[i])]

\* strings.Compare on texts: -1, 0 or 1 (byte order of the model's characters)
CharRank(c) ==
    CASE c = "-" -> 45
      [] c = "0" -> 48
      [] c = "1" -> 49
      [] c = "=" -> 61
      [] c = "e" -> 101
      [] c = "h" -> 104
      [] c = "i" -> 105
      [] c = "l" -> 108
      [] c = "n" -> 110
      [] c = "o" -> 111
      [] c = "p" -> 112
      [] c = "r" -> 114
      [] c = "s" -> 115
      [] c = "t" -> 116
      [] c = "u" -> 117
      [] c = "v" -> 118
      [] c = "x" -> 120
      [] OTHER -> 0

RECURSIVE Compare(_, _)
Compare(a, b) ==
    IF a = << >> /\ b = << >> THEN 0
    ELSE IF a = << >> THEN -1
    ELSE IF b = << >> THEN 1
    ELSE IF CharRank(a[1]) < CharRank(b[1]) THEN -1
    ELSE IF CharRank(a[1]) > CharRank(b[1]) THEN 1
    ELSE Compare(Tail(a), Tail(b))

----------------------------------------------------------------------------
(* Errors: what fmt.Errorf / strconv put in the error text.                *)

Err(kind, fn, text) == [kind |-> kind, fn |-> fn, text |-> text]

\* strconv's *NumError: names the parsing function and the raw text only
NumError(fn, text) == Err("parse", fn, text)

----------------------------------------------------------------------------
(* The parse functions (parseFunc).                                        *)

Digits == { "0", "1", "2", "3", "4", "5", "6", "7", "8", "9" }

DigitVal(c) ==
    CASE c = "0" -> 0 [] c = "1" -> 1 [] c = "2" -> 2 [] c = "3" -> 3
      [] c = "4" -> 4 [] c = "5" -> 5 [] c = "6" -> 6 [] c = "7" -> 7
      [] c = "8" -> 8 [] c = "9" -> 9

RECURSIVE DecimalValue(_, _)
DecimalValue(s, acc) ==
    IF s = << >> THEN acc ELSE DecimalValue(Tail(s), acc * 10 + DigitVal(s[1]))

\* strconv.Atoi: an optional sign, then one or more decimal digits
\* (texts of the model are far too short to overflow an int)
Atoi(s) ==
    LET signed == s # << >> /\ s[1] \in { "+", "-" }
        body   == IF signed THEN Tail(s) ELSE s
    IN  IF body = << >> \/ \E i \in 1..Len(body) : body[i] \notin Digits
        THEN [err |-> TRUE, e |-> NumError("Atoi", s), val |-> 0]
        ELSE [err |-> FALSE, e |-> NumError("Atoi", s),
              val |-> IF signed /\ s[1] = "-"
                      THEN 0 - DecimalValue(body, 0)
                      ELSE DecimalValue(body, 0)]

BoolTrueTexts ==
    { << "1" >>, << "t" >>, << "T" >>, << "T", "R", "U", "E" >>,
      << "t", "r", "u", "e" >>, << "T", "r", "u", "e" >> }

BoolFalseTexts ==
    { << "0" >>, << "f" >>, << "F" >>, << "F", "A", "L", "S", "E" >>,
      << "f", "a", "l", "s", "e" >>, << "F", "a", "l", "s", "e" >> }

\* strconv.ParseBool
ParseBool(s) ==
    IF s \in BoolTrueTexts THEN [err |-> FALSE, e |-> NumError("ParseBool", s), val |-> TRUE]
    ELSE IF s \in BoolFalseTexts THEN [err |-> FALSE, e |-> NumError("ParseBool", s), val |-> FALSE]
    ELSE [err |-> TRUE, e |-> NumError("ParseBool", s), val |-> FALSE]

\* NewStringFlag's parseFunc: func(s string) (string, error) { return s, nil }
ParseString(s) == [err |-> FALSE, e |-> NumError("", s), val |-> s]

\* f.parseFunc(s), by the constructor that made f
ParseFunc(kind, s) ==
    CASE kind = "bool"   -> ParseBool(s)
      [] kind = "int"    -> Atoi(s)
      [] kind = "string" -> ParseString(s)

\* the zero value of T
ZeroValue(kind) ==
    CASE kind = "bool"   -> FALSE
      [] kind = "int"    -> 0
      [] kind = "string" -> EmptyText

----------------------------------------------------------------------------
(* Flag[T]: constructors and methods, as functions on a descriptor record. *)
(* target holds the contents of the caller's variable *f.target.           *)

NewFlag(kind, name, placeholder) ==
    [ name            |-> name,
      kind            |-> kind,
      isBool          |-> kind = "bool",
      envVarName      |-> EmptyText,
      placeholder     |-> placeholder,
      defaultValue    |-> ZeroValue(kind),
      defaultValueSet |-> FALSE,
      required        |-> FALSE,
      set             |-> FALSE,
      target          |-> ZeroValue(kind) ]

NewBoolFlag(name) == NewFlag("bool", name, "")

NewIntFlag(name) == NewFlag("int", name, "INT")

NewStringFlag(name) == NewFlag("string", name, "STRING")

\* Each configuration method returns the descriptor it leaves and whether it panicked.
Env(f, name) == [panic |-> FALSE, f |-> [f EXCEPT !.envVarName = name]]

Placeholder(f, placeholder) ==
    IF f.isBool THEN [panic |-> TRUE, f |-> f]
    ELSE [panic |-> FALSE, f |-> [f EXCEPT !.placeholder = placeholder]]

\* Default without its check of f.required
DefaultNoRequiredCheck(f, v) ==
    IF f.isBool THEN [panic |-> TRUE, f |-> f]
    ELSE [panic |-> FALSE, f |-> [f EXCEPT !.defaultValue = v, !.defaultValueSet = TRUE]]

Default(f, v) ==
    IF f.isBool THEN [panic |-> TRUE, f |-> f]
    ELSE IF f.required THEN [panic |-> TRUE, f |-> f]
    ELSE [panic |-> FALSE, f |-> [f EXCEPT !.defaultValue = v, !.defaultValueSet = TRUE]]

Required(f) ==
    IF f.isBool THEN [panic |-> TRUE, f |-> f]
    ELSE IF f.defaultValueSet THEN [panic |-> TRUE, f |-> f]
    ELSE [panic |-> FALSE, f |-> [f EXCEPT !.required = TRUE]]

isRequired(f) == f.required

isSet(f) == f.set

getName(f) == f.name

\* setValue that writes the target only
setValueTargetOnly(f, val) == [f EXCEPT !.target = val]

setValue(f, val) == [f EXCEPT !.target = val, !.set = TRUE]

\* setValueFromString that stores parseFunc's result before looking at its error
setValueFromStringStoresFirst(f, s) ==
    LET r == ParseFunc(f.kind, s)
    IN  [err |-> r.err, e |-> r.e, f |-> setValue(f, r.val)]

\* returns the error flag, the error and the descriptor it leaves
setValueFromString(f, s) ==
    LET r == ParseFunc(f.kind, s)
    IN  IF r.err THEN [err |-> TRUE, e |-> r.e, f |-> f]
        ELSE [err |-> FALSE, e |-> r.e, f |-> setValue(f, r.val)]

\* os.LookupEnv: no variable has the empty name
LookupEnv(e, name) ==
    IF name # EmptyText /\ name \in DOMAIN e
    THEN [ok |-> TRUE, val |-> e[name]]
    ELSE [ok |-> FALSE, val |-> EmptyText]

\* setValueFromEnv that reports no error when the variable's text does not parse
setValueFromEnvDropsError(f, e) ==
    LET l == LookupEnv(e, f.envVarName)
    IN  IF ~l.ok THEN [err |-> FALSE, e |-> NumError("", EmptyText), f |-> f]
        ELSE [setValueFromString(f, l.val) EXCEPT !.err = FALSE]

setValueFromEnv(f, e) ==
    LET l == LookupEnv(e, f.envVarName)
    IN  IF ~l.ok THEN [err |-> FALSE, e |-> NumError("", EmptyText), f |-> f]
        ELSE setValueFromString(f, l.val)

setValueFromDefault(f) ==
    IF f.defaultValueSet THEN setValue(f, f.defaultValue) ELSE f

----------------------------------------------------------------------------
(* Parser: the registry.  A registry value R is the record of the parser's *)
(* flags, flagIndex, the descriptors they point to and the registration    *)
(* history.                                                                *)

HelpName == << "h", "e", "l", "p" >>
VersionName == << "v", "e", "r", "s", "i", "o", "n" >>

\* the Parser literal New starts from, before the options are applied
DefaultOptions ==
    [ autoEnv            |-> TRUE,
      envVarPrefix       |-> EmptyText,
      helpFlagName       |-> HelpName,
      appVersion         |-> EmptyText,
      appVersionFlagName |-> VersionName ]

WithoutAutoEnv(o) == [o EXCEPT !.autoEnv = FALSE]

WithHelpFlagName(o, name) == [o EXCEPT !.helpFlagName = name]

WithAppVersionFlagName(o, name) == [o EXCEPT !.appVersionFlagName = name]

WithAppVersion(o, version) == [o EXCEPT !.appVersion = version]

EmptyRegistry ==
    [ heap |-> << >>, flags |-> << >>, flagIndex |-> << >>, regOrder |-> << >> ]

\* a descriptor allocated outside any parser (NewIntFlag(&v, ...) on its own)
Standalone(f) == [EmptyRegistry EXCEPT !.heap = << f >>]

\* registerFlag without its look-up of the name
registerFlagNoCheck(R, name, f) ==
    LET id == Len(R.heap) + 1
    IN  [ panic |-> FALSE,
          id    |-> id,
          R     |-> [ heap      |-> Append(R.heap, f),
                      flags     |-> Append(R.flags, id),
                      flagIndex |-> [n \in (DOMAIN R.flagIndex) \cup {name} |->
                                        IF n = name THEN id ELSE R.flagIndex[n]],
                      regOrder  |-> Append(R.regOrder, id) ] ]

\* Parser.registerFlag; the descriptor becomes reachable only when it is accepted
registerFlag(R, name, f) ==
    IF name \in DOMAIN R.flagIndex
    THEN [panic |-> TRUE, id |-> 0, R |-> R]
    ELSE LET id == Len(R.heap) + 1
         IN  [ panic |-> FALSE,
               id    |-> id,
               R     |-> [ heap      |-> Append(R.heap, f),
                           flags     |-> Append(R.flags, id),
                           flagIndex |-> [n \in (DOMAIN R.flagIndex) \cup {name} |->
                                             IF n = name THEN id ELSE R.flagIndex[n]],
                           regOrder  |-> Append(R.regOrder, id) ] ]

\* New that registers the version toggle whether or not a version was configured
NewAlwaysVersion(o) ==
    LET h == registerFlag(EmptyRegistry, o.helpFlagName, NewBoolFlag(o.helpFlagName))
        v == registerFlag(h.R, o.appVersionFlagName, NewBoolFlag(o.appVersionFlagName))
    IN  [panic |-> h.panic \/ v.panic, R |-> v.R]

\* New(opts...): registers the help toggle, and the version toggle when a version
\* string was configured
New(o) ==
    LET h == registerFlag(EmptyRegistry, o.helpFlagName, NewBoolFlag(o.helpFlagName))
    IN  IF o.appVersion # EmptyText
        THEN LET v == registerFlag(h.R, o.appVersionFlagName,
                                   NewBoolFlag(o.appVersionFlagName))
             IN  [panic |-> h.panic \/ v.panic, R |-> v.R]
        ELSE [panic |-> h.panic, R |-> h.R]

\* the registration that names the environment variable whatever p.autoEnv is
ParserFlagAlwaysEnv(R, o, kind, name) ==
    LET f == CASE kind = "bool"   -> NewBoolFlag(name)
               [] kind = "int"    -> NewIntFlag(name)
               [] kind = "string" -> NewStringFlag(name)
        r == registerFlag(R, name, f)
    IN  IF r.panic THEN r
        ELSE [r EXCEPT !.R.heap[r.id] =
                 Env(f, o.envVarPrefix \o DefaultEnvVarFormatter(name)).f]

\* Parser.Bool / Parser.Int / Parser.String: construct, register, then Env when autoEnv
ParserFlag(R, o, kind, name) ==
    LET f == CASE kind = "bool"   -> NewBoolFlag(name)
               [] kind = "int"    -> NewIntFlag(name)
               [] kind = "string" -> NewStringFlag(name)
        r == registerFlag(R, name, f)
    IN  IF r.panic THEN r
        ELSE IF o.autoEnv
        THEN [r EXCEPT !.R.heap[r.id] =
                 Env(f, o.envVarPrefix \o DefaultEnvVarFormatter(name)).f]
        ELSE r

\* a configuration method called on the descriptor id of registry R
Configure(R, id, res) == [panic |-> res.panic, id |-> id, R |-> [R EXCEPT !.heap[id] = res.f]]

\* Parser.set that also marks every descriptor of the registry as set
setMarksEvery(h, index, name, value) ==
    IF name \in DOMAIN index
    THEN LET r == setValueFromString(h[index[name]], value)
         IN  [err |-> r.err, e |-> r.e,
              heap |-> [id \in DOMAIN h |->
                            IF id = index[name] THEN r.f ELSE [h[id] EXCEPT !.set = TRUE]]]
    ELSE [err |-> TRUE, e |-> Err("unknown flag", "", name), heap |-> h]

\* Parser.set
set(h, index, name, value) ==
    IF name \in DOMAIN index
    THEN LET r == setValueFromString(h[index[name]], value)
         IN  [err |-> r.err, e |-> r.e, heap |-> [h EXCEPT ![index[name]] = r.f]]
    ELSE [err |-> TRUE, e |-> Err("unknown flag", "", name), heap |-> h]

\* some enumeration of a finite set
RECURSIVE SetToSeq(_)
SetToSeq(S) ==
    IF S = {} THEN << >>
    ELSE LET x == CHOOSE x \in S : TRUE IN << x >> \o SetToSeq(S \ {x})

Orderings(S) ==
    { o \in [1..Cardinality(S) -> S] : \A i, j \in DOMAIN o : i # j => o[i] # o[j] }

\* The orders in which parse's range over the map flagIndex may visit its keys.
\* A key whose descriptor finds no environment variable adds no error and writes
\* only its own descriptor, so its place in the order changes nothing: such keys
\* are visited first, and the keys that do find a variable in every order.
KeyOrders(h, index, e) ==
    LET K     == DOMAIN index
        found == { k \in K : LookupEnv(e, h[index[k]].envVarName).ok }
    IN  { SetToSeq(K \ found) \o o : o \in Orderings(found) }

\* the seed loop with its two calls swapped: environment, then default
RECURSIVE SeedPassEnvFirst(_, _, _, _, _)
SeedPassEnvFirst(h, index, e, order, errs) ==
    IF order = << >> THEN [heap |-> h, errs |-> errs]
    ELSE LET id == index[order[1]]
             r  == setValueFromEnv(h[id], e)
             d  == setValueFromDefault(r.f)
         IN  SeedPassEnvFirst([h EXCEPT ![id] = d], index, e, Tail(order),
                              IF r.err THEN Append(errs, r.e) ELSE errs)

\* the seed loop that returns at the first environment value that fails to parse
RECURSIVE SeedPassStopsAtError(_, _, _, _, _)
SeedPassStopsAtError(h, index, e, order, errs) ==
    IF order = << >> THEN [heap |-> h, errs |-> errs]
    ELSE LET id == index[order[1]]
             d  == setValueFromDefault(h[id])
             r  == setValueFromEnv(d, e)
         IN  IF r.err THEN [heap |-> [h EXCEPT ![id] = r.f], errs |-> Append(errs, r.e)]
             ELSE SeedPassStopsAtError([h EXCEPT ![id] = r.f], index, e, Tail(order), errs)

\* parse's first loop, visiting the keys in the given order: default, then environment
RECURSIVE SeedPass(_, _, _, _, _)
SeedPass(h, index, e, order, errs) ==
    IF order = << >> THEN [heap |-> h, errs |-> errs]
    ELSE LET id == index[order[1]]
             d  == setValueFromDefault(h[id])
             r  == setValueFromEnv(d, e)
         IN  SeedPass([h EXCEPT ![id] = r.f], index, e, Tail(order),
                      IF r.err THEN Append(errs, r.e) ELSE errs)

\* parse's second loop as a function of the tokens left: the descriptors and the
\* errors it returns with
RECURSIVE TokenLoop(_, _, _, _)
TokenLoop(h, index, a, errs) ==
    IF a = << >> THEN [heap |-> h, errs |-> errs]
    ELSE IF ~HasPrefix(Head(a), Marker)
    THEN [heap |-> h, errs |-> Append(errs, Err("unexpected argument", "", Head(a)))]
    ELSE LET arg  == TrimPrefix(Head(a), Marker)
             rest == Tail(a)
             eq   == Index(arg, "=")
             r    == IF eq # -1
                     THEN set(h, index, SubSeq(arg, 1, eq), SubSeq(arg, eq + 2, Len(arg)))
                     ELSE IF (IF rest = << >> THEN TRUE ELSE HasPrefix(Head(rest), Marker))
                     THEN set(h, index, arg, TrueText)
                     ELSE set(h, index, arg, Head(rest))
             left == IF eq # -1 \/ (IF rest = << >> THEN TRUE ELSE HasPrefix(Head(rest), Marker))
                     THEN rest
                     ELSE Tail(rest)
         IN  IF arg = EmptyText
             THEN [heap |-> h,
                   errs |-> IF rest # << >>
                            THEN Append(errs, Err("unexpected arguments", "", Join(rest)))
                            ELSE errs]
             ELSE TokenLoop(r.heap, index, left, IF r.err THEN Append(errs, r.e) ELSE errs)

\* Parser.parse as a function: the seed loop in the given key order, then the tokens
parse(h, index, e, order, a) ==
    TokenLoop(SeedPass(h, index, e, order, << >>).heap, index, a,
              SeedPass(h, index, e, order, << >>).errs)

\* Parser.checkRequiredFlags over p.flags fl
RECURSIVE checkRequiredFlags(_, _)
checkRequiredFlags(h, fl) ==
    IF fl = << >> THEN << >>
    ELSE LET f == h[fl[1]]
         IN  (IF isRequired(f) /\ ~isSet(f)
              THEN << Err("missing required flag", "", getName(f)) >>
              ELSE << >>) \o checkRequiredFlags(h, Tail(fl))

\* slices.SortStableFunc(p.flags, by name): stable insertion of each element in turn
RECURSIVE InsertByName(_, _, _)
InsertByName(h, sorted, id) ==
    IF sorted = << >> THEN << id >>
    ELSE IF Compare(h[id].name, h[sorted[1]].name) < 0 THEN << id >> \o sorted
    ELSE << sorted[1] >> \o InsertByName(h, Tail(sorted), id)

RECURSIVE SortStableByName(_, _)
SortStableByName(h, fl) ==
    IF fl = << >> THEN << >>
    ELSE InsertByName(h, SortStableByName(h, SubSeq(fl, 1, Len(fl) - 1)), fl[Len(fl)])

----------------------------------------------------------------------------
(* The inputs the model draws from.                                        *)

NameN == << "n" >>
NameS == << "s" >>
NameV == << "v" >>
NameU == << "u" >>

FlagToken(name) == Marker \o name
FlagEqToken(name, value) == Marker \o name \o << "=" >> \o value

\* the tokens of SpecParse: both flag forms, good and bad values, an unknown flag,
\* the bare marker, a value holding "=", an empty value, a toggle
Tokens ==
    { FlagEqToken(NameN, << "1" >>), FlagToken(NameN), << "1" >>, << "x" >>, Marker,
      FlagToken(NameU), FlagEqToken(NameU, << "1" >>),
      FlagEqToken(NameS, << "1", "=", "x" >>), FlagEqToken(NameS, EmptyText),
      FlagToken(NameS), FlagToken(HelpName) }

\* the tokens of Spec
RunTokens == { FlagEqToken(NameN, << "1" >>), FlagToken(NameN), << "1" >>, Marker }

SeqsUpTo(T, n) == UNION { [1..k -> T] : k \in 0..n }

ArgLists == SeqsUpTo(Tokens, MaxArgs)
RunArgLists == SeqsUpTo(RunTokens, MaxRunArgs)

EnvN == << "N" >>
GoodEnvText == << "1", "0" >>
BadEnvText == << "x" >>

\* the environments: N absent, N holding a number, N holding text that is no number
Envs == { [k \in S |-> v] : S \in { {}, { EnvN } }, v \in { GoodEnvText, BadEnvText } }

DefaultValues(kind) ==
    CASE kind = "bool"   -> { TRUE }
      [] kind = "int"    -> { 5 }
      [] kind = "string" -> { << "d" >> }

Placeholders == { "", "<p>" }
EnvNames == { EmptyText, EnvN }

\* the option lists New is called with
OptionSets == { DefaultOptions, WithAppVersion(DefaultOptions, << "1" >>) }

----------------------------------------------------------------------------
(* Actions.                                                                *)

Call(op, id, name) == [op |-> op, id |-> id, name |-> name]

Registry == [heap |-> heap, flags |-> flags, flagIndex |-> flagIndex, regOrder |-> regOrder]

SetRegistry(R) ==
    /\ heap' = R.heap
    /\ flags' = R.flags
    /\ flagIndex' = R.flagIndex
    /\ regOrder' = R.regOrder

passVars == << pc, input, args, parseErrs, setCalls >>

\* the process as Parse leaves it
procVars == << output, exitStatus >>

\* the descriptors the caller holds a pointer to: all but the help and version toggles
CallerIds ==
    { id \in DOMAIN heap :
        \A n \in { popts.helpFlagName, popts.appVersionFlagName } \cap DOMAIN flagIndex :
            flagIndex[n] # id }

Register(kind, name) ==
    /\ pc = "idle"
    /\ LET r == ParserFlag(Registry, popts, kind, name)
       IN  /\ SetRegistry(r.R)
           /\ panicked' = r.panic
           /\ lastCall' = Call("register", r.id, name)
    /\ UNCHANGED << popts, env, passVars, checkErrs, procVars >>

\* (a program of Spec registers an int flag n and a string flag s; its p.Bool call
\* reuses the help toggle's name)
ParserBool == \E name \in { HelpName } : Register("bool", name)

ParserInt == \E name \in { NameN } : Register("int", name)

ParserString == \E name \in { NameS, VersionName } : Register("string", name)

ConfigureCall(op, id, res) ==
    /\ pc = "idle"
    /\ id \in CallerIds
    /\ SetRegistry(Configure(Registry, id, res).R)
    /\ panicked' = res.panic
    /\ lastCall' = Call(op, id, heap[id].name)
    /\ UNCHANGED << popts, env, passVars, checkErrs, procVars >>

FlagEnv == \E id \in DOMAIN heap, name \in EnvNames : ConfigureCall("Env", id, Env(heap[id], name))

FlagPlaceholder ==
    \E id \in DOMAIN heap, ph \in Placeholders :
        ConfigureCall("Placeholder", id, Placeholder(heap[id], ph))

FlagDefault ==
    \E id \in DOMAIN heap : \E v \in DefaultValues(heap[id].kind) :
        ConfigureCall("Default", id, Default(heap[id], v))

FlagRequired == \E id \in DOMAIN heap : ConfigureCall("Required", id, Required(heap[id]))

\* the set methods called directly on a descriptor
FlagSetValueFromString ==
    \E id \in DOMAIN heap, s \in { << "1" >>, << "x" >> } :
        LET r == setValueFromString(heap[id], s)
        IN  /\ pc = "idle"
            /\ heap' = [heap EXCEPT ![id] = r.f]
            /\ panicked' = FALSE
            /\ lastCall' = Call(IF r.err THEN "setValueFromString:error" ELSE "setValueFromString",
                                id, s)
            /\ UNCHANGED << popts, flags, flagIndex, regOrder, env, passVars, checkErrs, procVars >>

FlagSetValueFromEnv ==
    \E id \in DOMAIN heap :
        LET r == setValueFromEnv(heap[id], env)
        IN  /\ pc = "idle"
            /\ heap' = [heap EXCEPT ![id] = r.f]
            /\ panicked' = FALSE
            /\ lastCall' = Call(IF r.err THEN "setValueFromEnv:error" ELSE "setValueFromEnv",
                                id, heap[id].envVarName)
            /\ UNCHANGED << popts, flags, flagIndex, regOrder, env, passVars, checkErrs, procVars >>

FlagSetValueFromDefault ==
    \E id \in DOMAIN heap :
        /\ pc = "idle"
        /\ heap' = [heap EXCEPT ![id] = setValueFromDefault(heap[id])]
        /\ panicked' = FALSE
        /\ lastCall' = Call("setValueFromDefault", id, heap[id].name)
        /\ UNCHANGED << popts, flags, flagIndex, regOrder, env, passVars, checkErrs, procVars >>

(* Parser.parse: the call with its seed loop, then one action per turn of   *)
(* the token loop, by the branch the turn takes.                            *)

ParseCall(lists) ==
    /\ pc = "idle"
    /\ \E order \in KeyOrders(heap, flagIndex, env), a \in lists :
        LET r == SeedPass(heap, flagIndex, env, order, << >>)
        IN  /\ heap' = r.heap
            /\ parseErrs' = r.errs
            /\ input' = a
            /\ args' = a
            /\ setCalls' = << >>
            /\ pc' = "scan"
            /\ panicked' = FALSE
            /\ lastCall' = Call("parse", 0, EmptyText)
            /\ UNCHANGED << popts, flags, flagIndex, regOrder, env, checkErrs, procVars >>

\* a further p.parse call on the same parser, the environment possibly changed since
ParseAgain(lists) ==
    /\ pc \in { "done", "halted" }
    /\ \E e \in Envs :
        \E order \in KeyOrders(heap, flagIndex, e), a \in lists :
            LET r == SeedPass(heap, flagIndex, e, order, << >>)
            IN  /\ env' = e
                /\ heap' = r.heap
                /\ parseErrs' = r.errs
                /\ input' = a
                /\ args' = a
                /\ setCalls' = << >>
                /\ pc' = "scan"
                /\ panicked' = FALSE
                /\ lastCall' = Call("parse", 0, EmptyText)
                /\ UNCHANGED << popts, flags, flagIndex, regOrder, checkErrs, procVars >>

passFrame ==
    << popts, flags, flagIndex, regOrder, env, input, checkErrs, panicked, lastCall, procVars >>

\* the loop's condition fails: return parseErrs
ParseReturn ==
    /\ pc = "scan"
    /\ args = << >>
    /\ pc' = "done"
    /\ UNCHANGED << heap, args, parseErrs, setCalls >>
    /\ UNCHANGED passFrame

\* the stray token reported, but the loop carried on
ParseUnexpectedArgumentContinues ==
    /\ pc = "scan"
    /\ args # << >>
    /\ ~HasPrefix(Head(args), Marker)
    /\ parseErrs' = Append(parseErrs, Err("unexpected argument", "", Head(args)))
    /\ args' = Tail(args)
    /\ pc' = "scan"
    /\ UNCHANGED << heap, setCalls >>
    /\ UNCHANGED passFrame

\* a token without the "--" prefix
ParseUnexpectedArgument ==
    /\ pc = "scan"
    /\ args # << >>
    /\ ~HasPrefix(Head(args), Marker)
    /\ parseErrs' = Append(parseErrs, Err("unexpected argument", "", Head(args)))
    /\ args' = Tail(args)
    /\ pc' = "halted"
    /\ UNCHANGED << heap, setCalls >>
    /\ UNCHANGED passFrame

\* the bare "--" skipped, and the tokens after it scanned as flags
ParseEndOfFlagsIgnored ==
    /\ pc = "scan"
    /\ args # << >>
    /\ HasPrefix(Head(args), Marker)
    /\ TrimPrefix(Head(args), Marker) = EmptyText
    /\ args' = Tail(args)
    /\ parseErrs' = parseErrs
    /\ pc' = IF Tail(args) # << >> THEN "scan" ELSE "done"
    /\ UNCHANGED << heap, setCalls >>
    /\ UNCHANGED passFrame

\* the bare "--"
ParseEndOfFlags ==
    /\ pc = "scan"
    /\ args # << >>
    /\ HasPrefix(Head(args), Marker)
    /\ TrimPrefix(Head(args), Marker) = EmptyText
    /\ args' = Tail(args)
    /\ IF Tail(args) # << >>
       THEN /\ parseErrs' = Append(parseErrs,
                                   Err("unexpected arguments", "", Join(Tail(args))))
            /\ pc' = "halted"
       ELSE /\ parseErrs' = parseErrs
            /\ pc' = "done"
    /\ UNCHANGED << heap, setCalls >>
    /\ UNCHANGED passFrame

\* a turn that returns from parse as soon as p.set fails
SetStepHaltsOnError(name, value, rest) ==
    LET r == set(heap, flagIndex, name, value)
    IN  /\ heap' = r.heap
        /\ parseErrs' = IF r.err THEN Append(parseErrs, r.e) ELSE parseErrs
        /\ setCalls' = Append(setCalls, << name, value >>)
        /\ args' = rest
        /\ pc' = IF r.err THEN "halted" ELSE "scan"
        /\ UNCHANGED passFrame

\* a turn that puts p.set's error in front of the errors collected so far
SetStepPrependsError(name, value, rest) ==
    LET r == set(heap, flagIndex, name, value)
    IN  /\ heap' = r.heap
        /\ parseErrs' = IF r.err THEN << r.e >> \o parseErrs ELSE parseErrs
        /\ setCalls' = Append(setCalls, << name, value >>)
        /\ args' = rest
        /\ pc' = "scan"
        /\ UNCHANGED passFrame

\* the rest of a turn: p.set(name, value), its error appended, n more tokens dropped
SetStep(name, value, rest) ==
    LET r == set(heap, flagIndex, name, value)
    IN  /\ heap' = r.heap
        /\ parseErrs' = IF r.err THEN Append(parseErrs, r.e) ELSE parseErrs
        /\ setCalls' = Append(setCalls, << name, value >>)
        /\ args' = rest
        /\ pc' = "scan"
        /\ UNCHANGED passFrame

\* --key=value
ParseEquals ==
    /\ pc = "scan"
    /\ args # << >>
    /\ HasPrefix(Head(args), Marker)
    /\ LET arg == TrimPrefix(Head(args), Marker)
           equalsIdx == Index(arg, "=")
       IN  /\ arg # EmptyText
           /\ equalsIdx # -1
           /\ SetStep(SubSeq(arg, 1, equalsIdx), SubSeq(arg, equalsIdx + 2, Len(arg)),
                      Tail(args))

\* the toggle that also drops the token after it
ParseToggleSkipsNext ==
    /\ pc = "scan"
    /\ args # << >>
    /\ HasPrefix(Head(args), Marker)
    /\ LET arg == TrimPrefix(Head(args), Marker)
           rest == Tail(args)
       IN  /\ arg # EmptyText
           /\ Index(arg, "=") = -1
           /\ (IF rest = << >> THEN TRUE ELSE HasPrefix(Head(rest), Marker))
           /\ SetStep(arg, TrueText, IF rest = << >> THEN rest ELSE Tail(rest))

\* the toggle that leaves its own token at the head of args
ParseToggleKeepsToken ==
    /\ pc = "scan"
    /\ args # << >>
    /\ HasPrefix(Head(args), Marker)
    /\ LET arg == TrimPrefix(Head(args), Marker)
           rest == Tail(args)
       IN  /\ arg # EmptyText
           /\ Index(arg, "=") = -1
           /\ IF rest = << >> THEN TRUE ELSE HasPrefix(Head(rest), Marker)
           /\ SetStep(arg, TrueText, args)

\* --key (boolean flag)
ParseToggle ==
    /\ pc = "scan"
    /\ args # << >>
    /\ HasPrefix(Head(args), Marker)
    /\ LET arg == TrimPrefix(Head(args), Marker)
           rest == Tail(args)
       IN  /\ arg # EmptyText
           /\ Index(arg, "=") = -1
           /\ (IF rest = << >> THEN TRUE ELSE HasPrefix(Head(rest), Marker))
           /\ SetStep(arg, TrueText, rest)

\* the pair whose value token is left in args
ParsePairKeepsValue ==
    /\ pc = "scan"
    /\ args # << >>
    /\ HasPrefix(Head(args), Marker)
    /\ LET arg == TrimPrefix(Head(args), Marker)
           rest == Tail(args)
       IN  /\ arg # EmptyText
           /\ Index(arg, "=") = -1
           /\ ~(IF rest = << >> THEN TRUE ELSE HasPrefix(Head(rest), Marker))
           /\ SetStep(arg, Head(rest), rest)

\* the pair that leaves the value token in args when the flag is not registered
ParsePairUnknownKeepsValue ==
    /\ pc = "scan"
    /\ args # << >>
    /\ HasPrefix(Head(args), Marker)
    /\ LET arg == TrimPrefix(Head(args), Marker)
           rest == Tail(args)
       IN  /\ arg # EmptyText
           /\ Index(arg, "=") = -1
           /\ ~(IF rest = << >> THEN TRUE ELSE HasPrefix(Head(rest), Marker))
           /\ SetStep(arg, Head(rest), IF arg \in DOMAIN flagIndex THEN Tail(rest) ELSE rest)

\* --key value
ParsePair ==
    /\ pc = "scan"
    /\ args # << >>
    /\ HasPrefix(Head(args), Marker)
    /\ LET arg == TrimPrefix(Head(args), Marker)
           rest == Tail(args)
       IN  /\ arg # EmptyText
           /\ Index(arg, "=") = -1
           /\ ~(IF rest = << >> THEN TRUE ELSE HasPrefix(Head(rest), Marker))
           /\ SetStep(arg, Head(rest), Tail(rest))

ParseStep ==
    \/ ParseReturn
    \/ ParseUnexpectedArgument
    \/ ParseEndOfFlags
    \/ ParseEquals
    \/ ParseToggle
    \/ ParsePair

CheckRequiredFlags ==
    /\ pc \in { "done", "halted" }
    /\ checkErrs' = checkRequiredFlags(heap, flags)
    /\ panicked' = FALSE
    /\ lastCall' = Call("checkRequiredFlags", 0, EmptyText)
    /\ UNCHANGED << popts, heap, flags, flagIndex, regOrder, env, passVars, procVars >>

\* Parser.printHelp: sorts p.flags in place, then writes the usage text
PrintHelp ==
    /\ pc # "scan"
    /\ flags' = SortStableByName(heap, flags)
    /\ panicked' = FALSE
    /\ lastCall' = Call("printHelp", 0, EmptyText)
    /\ UNCHANGED << popts, heap, flagIndex, regOrder, env, passVars, checkErrs, procVars >>

(* Parser.Parse: p.parse(os.Args[1:]) is the pass above; what follows its   *)
(* return is one action per branch.                                         *)

\* p.helpCalled and p.versionCalled: the targets of the toggles New registered
helpCalled == heap[flagIndex[popts.helpFlagName]].target

versionCalled ==
    /\ popts.appVersion # EmptyText
    /\ heap[flagIndex[popts.appVersionFlagName]].target

Block(w, block, errs) == [stream |-> w, block |-> block, errs |-> errs]

\* Parser.printErrs: the errors, one per line, then the hint naming the help flag
printErrs(w, errs) == << Block(w, "errors", errs), Block(w, "hint", << >>) >>

\* p.parse has returned into Parse
ParseReturned == pc \in { "done", "halted" } /\ exitStatus = "running"

ParseDone(status) ==
    /\ exitStatus' = status
    /\ panicked' = FALSE
    /\ lastCall' = Call("Parse", 0, EmptyText)
    /\ UNCHANGED << popts, heap, flagIndex, regOrder, env, passVars >>

\* if errs := p.parse(...); len(errs) != 0
ParseExitOnErrors ==
    /\ ParseReturned
    /\ parseErrs # << >>
    /\ output' = output \o printErrs("stderr", parseErrs)
    /\ ParseDone("exit 1")
    /\ UNCHANGED << flags, checkErrs >>

\* the help branch taken without looking at the pass's errors
ParseExitOnHelpDespiteErrors ==
    /\ ParseReturned
    /\ helpCalled
    /\ flags' = SortStableByName(heap, flags)
    /\ output' = Append(output, Block("stdout", "usage", << >>))
    /\ ParseDone("exit 0")
    /\ UNCHANGED checkErrs

\* if p.helpCalled
ParseExitOnHelp ==
    /\ ParseReturned
    /\ parseErrs = << >>
    /\ helpCalled
    /\ flags' = SortStableByName(heap, flags)
    /\ output' = Append(output, Block("stdout", "usage", << >>))
    /\ ParseDone("exit 0")
    /\ UNCHANGED checkErrs

\* if p.versionCalled
ParseExitOnVersion ==
    /\ ParseReturned
    /\ parseErrs = << >>
    /\ ~helpCalled
    /\ versionCalled
    /\ output' = Append(output, Block("stdout", "version", << >>))
    /\ ParseDone("exit 0")
    /\ UNCHANGED << flags, checkErrs >>

\* if errs := p.checkRequiredFlags(); len(errs) != 0
ParseExitOnMissing ==
    /\ ParseReturned
    /\ parseErrs = << >>
    /\ ~helpCalled
    /\ ~versionCalled
    /\ checkRequiredFlags(heap, flags) # << >>
    /\ checkErrs' = checkRequiredFlags(heap, flags)
    /\ output' = output \o printErrs("stderr", checkRequiredFlags(heap, flags))
    /\ ParseDone("exit 1")
    /\ UNCHANGED flags

\* Parse falls off its end
ParseComesBack ==
    /\ ParseReturned
    /\ parseErrs = << >>
    /\ ~helpCalled
    /\ ~versionCalled
    /\ checkRequiredFlags(heap, flags) = << >>
    /\ checkErrs' = checkRequiredFlags(heap, flags)
    /\ output' = output
    /\ ParseDone("returned")
    /\ UNCHANGED flags

----------------------------------------------------------------------------
(* Spec: one run of a program.  New, then registrations and Required /      *)
(* Default calls, then one resolution pass; help rendering and the          *)
(* required-flags check at any point outside the pass.                      *)

InitCommon ==
    /\ pc = "idle"
    /\ input = << >>
    /\ args = << >>
    /\ parseErrs = << >>
    /\ setCalls = << >>
    /\ checkErrs = << >>
    /\ panicked = FALSE
    /\ output = << >>
    /\ exitStatus = "running"

Init ==
    /\ InitCommon
    /\ \E o \in OptionSets :
        /\ popts = o
        /\ ~New(o).panic
        /\ heap = New(o).R.heap
        /\ flags = New(o).R.flags
        /\ flagIndex = New(o).R.flagIndex
        /\ regOrder = New(o).R.regOrder
    /\ env \in Envs
    /\ lastCall = Call("New", 0, EmptyText)

Next ==
    \/ ParserBool
    \/ ParserInt
    \/ ParserString
    \/ FlagDefault
    \/ FlagRequired
    \/ ParseCall(RunArgLists)
    \/ ParseStep
    \/ CheckRequiredFlags
    \/ PrintHelp

Spec == Init /\ [][Next]_vars

----------------------------------------------------------------------------
(* SpecFlag: one descriptor on its own, as the package's flag tests use it: *)
(* a constructor, then any sequence of its methods.                         *)

InitFlag ==
    /\ InitCommon
    /\ popts = DefaultOptions
    /\ \E f \in { NewBoolFlag(NameV), NewIntFlag(NameN), NewStringFlag(NameS) } :
        /\ heap = Standalone(f).heap
        /\ flags = Standalone(f).flags
        /\ flagIndex = Standalone(f).flagIndex
        /\ regOrder = Standalone(f).regOrder
    /\ env \in Envs
    /\ lastCall = Call("NewFlag", 1, EmptyText)

NextFlag ==
    \/ FlagEnv
    \/ FlagPlaceholder
    \/ FlagDefault
    \/ FlagRequired
    \/ FlagSetValueFromString
    \/ FlagSetValueFromEnv
    \/ FlagSetValueFromDefault

SpecFlag == InitFlag /\ [][NextFlag]_vars

----------------------------------------------------------------------------
(* SpecParse: one resolution pass over every argument list of the token     *)
(* vocabulary, on a parser built as                                         *)
(*     p := New(); p.String(&s, "s", ...); p.Int(&i, "n", ...)              *)
(* with the int flag left plain, made Required, or given Default(5).        *)

ParserOf(R, o, kind, name) == ParserFlag(R, o, kind, name).R

FixtureBase == ParserOf(ParserOf(New(DefaultOptions).R, DefaultOptions, "string", NameS),
                        DefaultOptions, "int", NameN)

Fixtures ==
    LET id == FixtureBase.flagIndex[NameN]
        f  == FixtureBase.heap[id]
    IN  { FixtureBase,
          Configure(FixtureBase, id, Required(f)).R,
          Configure(FixtureBase, id, Default(f, 5)).R }

InitParse ==
    /\ InitCommon
    /\ popts = DefaultOptions
    /\ \E R \in Fixtures :
        /\ heap = R.heap
        /\ flags = R.flags
        /\ flagIndex = R.flagIndex
        /\ regOrder = R.regOrder
    /\ env \in Envs
    /\ lastCall = Call("New", 0, EmptyText)

NextParse ==
    \/ ParseCall(ArgLists)
    \/ ParseStep

SpecParse == InitParse /\ [][NextParse]_vars

----------------------------------------------------------------------------
(* SpecRepeat: any number of resolution passes on the parser of SpecParse,  *)
(* each with its own argument list and environment.                         *)

NextRepeat ==
    \/ ParseCall(RunArgLists)
    \/ ParseStep
    \/ ParseAgain(RunArgLists)

SpecRepeat == InitParse /\ [][NextRepeat]_vars

----------------------------------------------------------------------------
(* SpecEnv: the environment as a source.  Parsers built as                  *)
(*     p := New(opts...); p.Int(&i, "n", ...); p.String(&s, "s", ...)       *)
(* with and without WithoutAutoEnv and WithAppVersion; then Env calls on    *)
(* the flags, direct set-from-environment calls and one resolution pass, in *)
(* environments that may hold N, HELP and VERSION.                          *)

EnvHelp == DefaultEnvVarFormatter(HelpName)
EnvVersion == DefaultEnvVarFormatter(VersionName)

\* every environment over N (a number, or text that is none) and HELP, VERSION (true)
EnvsAll ==
    { [k \in K |-> IF k = EnvN THEN v ELSE TrueText] :
        K \in SUBSET { EnvN, EnvHelp, EnvVersion }, v \in { GoodEnvText, BadEnvText } }

EnvOptionSets ==
    { DefaultOptions,
      WithAppVersion(DefaultOptions, << "1" >>),
      WithoutAutoEnv(WithAppVersion(DefaultOptions, << "1" >>)) }

FixtureEnv(o) == ParserOf(ParserOf(New(o).R, o, "int", NameN), o, "string", NameS)

InitEnv ==
    /\ InitCommon
    /\ \E o \in EnvOptionSets :
        /\ popts = o
        /\ heap = FixtureEnv(o).heap
        /\ flags = FixtureEnv(o).flags
        /\ flagIndex = FixtureEnv(o).flagIndex
        /\ regOrder = FixtureEnv(o).regOrder
    /\ env \in EnvsAll
    /\ lastCall = Call("New", 0, EmptyText)

NextEnv ==
    \/ FlagEnv
    \/ FlagSetValueFromEnv
    \/ ParseCall(RunArgLists)
    \/ ParseStep

SpecEnv == InitEnv /\ [][NextEnv]_vars

----------------------------------------------------------------------------
(* SpecSeed: the seed loop over several environment variables.  Parsers     *)
(* built as                                                                 *)
(*     p := New(); p.Int(&i, "n", ...); p.String(&s, "s", ...);             *)
(*     p.Bool(&b, "v", ...)                                                 *)
(* with n and s each left plain or given a default; environments over N (a  *)
(* number, or text that is none), S and V (text that is no boolean).        *)

EnvS == DefaultEnvVarFormatter(NameS)
EnvV == DefaultEnvVarFormatter(NameV)

SeedEnvs ==
    { [k \in K |-> IF k = EnvN THEN v ELSE BadEnvText] :
        K \in SUBSET { EnvN, EnvS, EnvV }, v \in { GoodEnvText, BadEnvText } }

FixtureSeedBase == ParserOf(FixtureEnv(DefaultOptions), DefaultOptions, "bool", NameV)

\* the registry with Default(v) called on the flag name when withDefault
WithDefault(R, name, withDefault) ==
    IF withDefault
    THEN Configure(R, R.flagIndex[name],
                   Default(R.heap[R.flagIndex[name]],
                           CHOOSE v \in DefaultValues(R.heap[R.flagIndex[name]].kind) : TRUE)).R
    ELSE R

FixturesSeed ==
    { WithDefault(WithDefault(FixtureSeedBase, NameN, dn), NameS, ds) : dn, ds \in BOOLEAN }

InitSeed ==
    /\ InitCommon
    /\ popts = DefaultOptions
    /\ \E R \in FixturesSeed :
        /\ heap = R.heap
        /\ flags = R.flags
        /\ flagIndex = R.flagIndex
        /\ regOrder = R.regOrder
    /\ env \in SeedEnvs
    /\ lastCall = Call("New", 0, EmptyText)

NextSeed ==
    \/ ParseCall(RunArgLists)
    \/ ParseStep

SpecSeed == InitSeed /\ [][NextSeed]_vars

----------------------------------------------------------------------------
(* SpecTokenize: one resolution pass on the parser of SpecParse, run to its *)
(* return and followed by what Parse calls next.  parse is a sequential     *)
(* loop on the caller's goroutine: a turn that can be taken is taken, which *)
(* is weak fairness of the loop's turns.                                    *)

\* the tokens of SpecRepeat, an unregistered flag and another stray word
TokenizeLists ==
    SeqsUpTo(RunTokens \cup { FlagToken(NameU), FlagEqToken(NameS, EmptyText), << "x" >> },
             MaxRunArgs)

NextTokenize ==
    \/ ParseCall(TokenizeLists)
    \/ ParseStep
    \/ CheckRequiredFlags

SpecTokenize == InitParse /\ [][NextTokenize]_vars /\ WF_vars(ParseStep)

----------------------------------------------------------------------------
(* SpecMain: a program's call of Parse.  Parsers built as                   *)
(*     p := New(opts...); p.Int(&i, "n", ...); p.String(&s, "s", ...)       *)
(* with and without an application version and with n plain or Required;    *)
(* Parse runs the pass on the command line and then decides.                *)

MainTokens ==
    { FlagToken(HelpName), FlagToken(VersionName), FlagEqToken(NameN, << "1" >>), << "x" >>,
      Marker }

MainArgLists == SeqsUpTo(MainTokens, MaxRunArgs)

FixturesMain(o) ==
    LET id == FixtureEnv(o).flagIndex[NameN]
    IN  { FixtureEnv(o),
          Configure(FixtureEnv(o), id, Required(FixtureEnv(o).heap[id])).R }

InitMain ==
    /\ InitCommon
    /\ \E o \in OptionSets :
        /\ popts = o
        /\ \E R \in FixturesMain(o) :
            /\ heap = R.heap
            /\ flags = R.flags
            /\ flagIndex = R.flagIndex
            /\ regOrder = R.regOrder
    /\ env \in Envs
    /\ lastCall = Call("New", 0, EmptyText)

NextMain ==
    \/ ParseCall(MainArgLists)
    \/ ParseStep
    \/ ParseExitOnErrors
    \/ ParseExitOnHelp
    \/ ParseExitOnVersion
    \/ ParseExitOnMissing
    \/ ParseComesBack

SpecMain == InitMain /\ [][NextMain]_vars

----------------------------------------------------------------------------
(* SpecNew: New under every combination of WithHelpFlagName("v"),           *)
(* WithAppVersionFlagName("v") and WithAppVersion("1") that lets it return  *)
(* (with all three the second registration panics), then registrations and  *)
(* help rendering.                                                          *)

NewOptionSets ==
    { [DefaultOptions EXCEPT !.helpFlagName = h, !.appVersionFlagName = v, !.appVersion = a] :
        h \in { HelpName, WithHelpFlagName(DefaultOptions, NameV).helpFlagName },
        v \in { VersionName, WithAppVersionFlagName(DefaultOptions, NameV).appVersionFlagName },
        a \in { EmptyText, WithAppVersion(DefaultOptions, << "1" >>).appVersion } }

InitNew ==
    /\ InitCommon
    /\ \E o \in NewOptionSets :
        /\ popts = o
        /\ ~New(o).panic
        /\ heap = New(o).R.heap
        /\ flags = New(o).R.flags
        /\ flagIndex = New(o).R.flagIndex
        /\ regOrder = New(o).R.regOrder
    /\ env \in Envs
    /\ lastCall = Call("New", 0, EmptyText)

NextNew ==
    \/ ParserBool
    \/ ParserInt
    \/ ParserString
    \/ PrintHelp

SpecNew == InitNew /\ [][NextNew]_vars

----------------------------------------------------------------------------
(* Properties.                                                             *)

Finished == pc \in { "done", "halted" }

RegisteredIds == { flagIndex[n] : n \in DOMAIN flagIndex }

\* the texts the tokenizer routed to the flag named name, in order
CliTexts(name) ==
    LET calls == SelectSeq(setCalls, LAMBDA c : c[1] = name)
    IN  [i \in 1..Len(calls) |-> calls[i][2]]

\* the texts among them that parse for the flag's type
CliParseable(f) == SelectSeq(CliTexts(f.name), LAMBDA t : ~ParseFunc(f.kind, t).err)

EnvFound(f) == LookupEnv(env, f.envVarName).ok

EnvParses(f) == EnvFound(f) /\ ~ParseFunc(f.kind, LookupEnv(env, f.envVarName).val).err

EnvValue(f) == ParseFunc(f.kind, LookupEnv(env, f.envVarName).val).val

\* the descriptors whose environment variable holds text that does not parse
EnvFailures == { id \in RegisteredIds : EnvFound(heap[id]) /\ ~EnvParses(heap[id]) }

(* C1: precedence within one resolution pass.  When parse has returned, for  *)
(* every registered flag with a default: if its environment variable parses  *)
(* and the tokenizer routed a parseable command-line value to it, the target *)
(* is the (last such) command-line value; if the environment variable       *)
(* parses and no command-line value was routed to it, the target is the      *)
(* environment value; if neither is present, the target is the default.      *)
C1_Precedence ==
    Finished =>
        \A id \in RegisteredIds :
            LET f   == heap[id]
                cli == CliParseable(f)
            IN  f.defaultValueSet =>
                    /\ (EnvParses(f) /\ cli # << >>) =>
                           f.target = ParseFunc(f.kind, cli[Len(cli)]).val
                    /\ (EnvParses(f) /\ CliTexts(f.name) = << >>) =>
                           f.target = EnvValue(f)
                    /\ (~EnvFound(f) /\ CliTexts(f.name) = << >>) =>
                           f.target = f.defaultValue

\* a pass with default 5, environment 10 and the pair --n 1 after another flag
C1_Witness ==
    /\ pc = "done"
    /\ NameN \in DOMAIN flagIndex
    /\ heap[flagIndex[NameN]].defaultValueSet
    /\ heap[flagIndex[NameN]].defaultValue = 5
    /\ EnvParses(heap[flagIndex[NameN]])
    /\ EnvValue(heap[flagIndex[NameN]]) = 10
    /\ input = << FlagToken(HelpName), FlagToken(NameN), << "1" >> >>
    /\ heap[flagIndex[NameN]].target = 1

\* input is the single token --name=value, or the pair --name value, for a
\* registered flag and a value that parses for its type
SingleFlagInput(name, value) ==
    \/ input = << FlagEqToken(name, value) >>
    \/ input = << FlagToken(name), value >>

WellFormedInputs ==
    { nv \in (DOMAIN flagIndex) \X
             { << "1" >>, << "x" >>, << "1", "=", "x" >>, EmptyText, Marker,
               FlagToken(NameU), FlagToken(HelpName) } :
        /\ SingleFlagInput(nv[1], nv[2])
        /\ ~ParseFunc(heap[flagIndex[nv[1]]].kind, nv[2]).err }

(* C2 as stated: for every registered flag and every value text that parses  *)
(* for its type, resolving the single token --name=value or the pair         *)
(* --name value leaves the target equal to the parsed value, the set flag    *)
(* true and the error list empty.                                            *)
C2_AsStated ==
    Finished =>
        \A nv \in WellFormedInputs :
            LET f == heap[flagIndex[nv[1]]]
            IN  /\ f.target = ParseFunc(f.kind, nv[2]).val
                /\ f.set
                /\ parseErrs = << >>

(* C2 amended: the same, for the token --name=value and for the pair         *)
(* --name value whose value does not start with "--"; the tokens add no      *)
(* error, so the error list holds only the seed pass's errors, one per       *)
(* descriptor whose environment variable fails to parse, and is empty when   *)
(* there is none.                                                            *)
C2_Amended ==
    Finished =>
        \A nv \in WellFormedInputs :
            (input = << FlagEqToken(nv[1], nv[2]) >> \/ ~HasPrefix(nv[2], Marker)) =>
                LET f == heap[flagIndex[nv[1]]]
                IN  /\ f.target = ParseFunc(f.kind, nv[2]).val
                    /\ f.set
                    /\ Len(parseErrs) = Cardinality(EnvFailures)
                    /\ \A i \in DOMAIN parseErrs : parseErrs[i].kind = "parse"
                    /\ pc = "done"

\* the pair --n 1 resolved with nothing failing in the environment
C2_Witness ==
    /\ pc = "done"
    /\ input = << FlagToken(NameN), << "1" >> >>
    /\ NameN \in DOMAIN flagIndex
    /\ heap[flagIndex[NameN]].target = 1
    /\ heap[flagIndex[NameN]].set
    /\ parseErrs = << >>

\* a turn of the token loop is about to read the token at the head of args
AtToken == pc = "scan" /\ args # << >>

\* the token is --name with a non-empty name holding no "="
PlainFlagToken(t) ==
    /\ HasPrefix(t, Marker)
    /\ Len(t) > 2
    /\ \A i \in 3..Len(t) : t[i] # "="

\* the effect of set-from-string with text value on the flag registered as name
\* (an unknown-flag error, and no descriptor touched, when there is none)
Routed(name, value) ==
    /\ setCalls' = Append(setCalls, << name, value >>)
    /\ IF name \in DOMAIN flagIndex
       THEN LET id == flagIndex[name]
                r  == setValueFromString(heap[id], value)
            IN  /\ heap' = [heap EXCEPT ![id] = r.f]
                /\ parseErrs' = IF r.err THEN Append(parseErrs, r.e) ELSE parseErrs
       ELSE /\ heap' = heap
            /\ parseErrs' = Append(parseErrs, Err("unknown flag", "", name))

(* C3: a flag token without "=" is handled by exactly one of two rules.  If  *)
(* it is the last token or the next token starts with "--", set-from-string  *)
(* is invoked on that flag with the text "true" and only this token is       *)
(* consumed; otherwise set-from-string is invoked with the next token as the *)
(* value and both tokens are consumed.                                       *)
C3_ToggleOrPair ==
    [][ (AtToken /\ PlainFlagToken(Head(args))) =>
            LET name == SubSeq(Head(args), 3, Len(Head(args)))
                rest == Tail(args)
            IN  IF Len(args) = 1
                THEN Routed(name, TrueText) /\ args' = << >>
                ELSE IF HasPrefix(args[2], Marker)
                THEN Routed(name, TrueText) /\ args' = rest
                ELSE Routed(name, args[2]) /\ args' = Tail(rest) ]_vars

\* --n 1 consumed as a pair, then --s toggled as the last token
C3_Witness ==
    /\ pc = "scan"
    /\ input = << FlagToken(NameN), << "1" >>, FlagToken(NameS) >>
    /\ args = << >>
    /\ setCalls = << << NameN, << "1" >> >>, << NameS, TrueText >> >>
    /\ heap[flagIndex[NameN]].target = 1
    /\ heap[flagIndex[NameS]].target = TrueText

\* the token starts with "--" and holds a "=" after it
EqualsToken(t) == HasPrefix(t, Marker) /\ \E i \in 3..Len(t) : t[i] = "="

(* C4: a token holding "=" after the marker is split at its first "=": the   *)
(* text before it is the flag name, everything after it (later "=" and the   *)
(* empty text included) is the value given to that flag's set-from-string;   *)
(* an unregistered name yields one unknown-flag error; exactly this token is *)
(* consumed and scanning continues.                                          *)
C4_SplitAtFirstEquals ==
    [][ (AtToken /\ EqualsToken(Head(args))) =>
            \A i \in 3..Len(Head(args)) :
                (Head(args)[i] = "=" /\ \A j \in 3..(i - 1) : Head(args)[j] # "=") =>
                    /\ Routed(SubSeq(Head(args), 3, i - 1),
                              SubSeq(Head(args), i + 1, Len(Head(args))))
                    /\ args' = Tail(args)
                    /\ pc' = "scan" ]_vars

\* --s=1=x gave s the value 1=x, then --s= gave it the empty text
C4_Witness ==
    /\ pc = "done"
    /\ input = << FlagEqToken(NameS, << "1", "=", "x" >>), FlagEqToken(NameU, << "1" >>),
                  FlagEqToken(NameS, EmptyText) >>
    /\ setCalls = << << NameS, << "1", "=", "x" >> >>, << NameU, << "1" >> >>,
                     << NameS, EmptyText >> >>
    /\ heap[flagIndex[NameS]].target = EmptyText
    /\ heap[flagIndex[NameS]].set
    /\ parseErrs = << Err("unknown flag", "", NameU) >>

\* nothing of the pass changes any more
PassFrozen ==
    /\ heap' = heap
    /\ parseErrs' = parseErrs
    /\ setCalls' = setCalls
    /\ args' = args
    /\ pc' = pc

(* C5: a token without the "--" prefix, met where a flag is expected, adds   *)
(* exactly one "unexpected argument" error and stops the pass: descriptors   *)
(* and earlier errors are kept as they are, and once halted no token is      *)
(* processed, no descriptor changes and no error is added.                   *)
C5_UnexpectedArgumentHalts ==
    /\ [][ (AtToken /\ ~HasPrefix(Head(args), Marker)) =>
               /\ parseErrs' = Append(parseErrs, Err("unexpected argument", "", Head(args)))
               /\ pc' = "halted"
               /\ heap' = heap
               /\ setCalls' = setCalls ]_vars
    /\ [][ pc = "halted" => PassFrozen ]_vars

\* --n=1 applied, x halted the pass, the token after x left unprocessed
C5_Witness ==
    /\ pc = "halted"
    /\ input = << FlagEqToken(NameN, << "1" >>), << "x" >>, FlagEqToken(NameS, EmptyText) >>
    /\ args = << FlagEqToken(NameS, EmptyText) >>
    /\ heap[flagIndex[NameN]].target = 1
    /\ ~heap[flagIndex[NameS]].set
    /\ parseErrs # << >>
    /\ parseErrs[Len(parseErrs)] = Err("unexpected argument", "", << "x" >>)

(* C6: a bare "--" ends flag parsing.  As the last token it stops the pass   *)
(* with no error added; with tokens after it, they are reported together as  *)
(* exactly one "unexpected arguments" error and none of them is processed as *)
(* a flag, even when they name registered flags.                             *)
C6_EndOfFlags ==
    /\ [][ (AtToken /\ Head(args) = Marker) =>
               /\ heap' = heap
               /\ setCalls' = setCalls
               /\ IF Len(args) = 1
                  THEN parseErrs' = parseErrs /\ pc' = "done"
                  ELSE /\ parseErrs' = Append(parseErrs,
                                              Err("unexpected arguments", "", Join(Tail(args))))
                       /\ pc' = "halted" ]_vars
    /\ [][ Finished => PassFrozen ]_vars

\* -- followed by --n=1 and --help: one error naming both, neither flag applied
C6_Witness ==
    /\ pc = "halted"
    /\ input = << Marker, FlagEqToken(NameN, << "1" >>), FlagToken(HelpName) >>
    /\ setCalls = << >>
    /\ heap[flagIndex[NameN]].target # 1
    /\ ~heap[flagIndex[HelpName]].set
    /\ Len(parseErrs) = 1
    /\ parseErrs[1] = Err("unexpected arguments", "",
                          FlagEqToken(NameN, << "1" >>) \o << " " >> \o FlagToken(HelpName))

(* C7: unknown-flag errors and value parse errors never halt tokenization.   *)
(* A turn that adds such an error stays in the loop, the pass returns as     *)
(* done only with every token consumed, and the only turns that stop the     *)
(* pass with input left or with a halt are a token without "--" and a "--"   *)
(* followed by more tokens.                                                  *)
C7_RecoverableErrors ==
    /\ [][ (pc = "scan" /\ Len(parseErrs') > Len(parseErrs)
              /\ parseErrs'[Len(parseErrs')].kind \in { "unknown flag", "parse" }) =>
               pc' = "scan" /\ Len(args') < Len(args) ]_vars
    /\ [][ (pc = "scan" /\ pc' = "halted") =>
               /\ args # << >>
               /\ \/ ~HasPrefix(Head(args), Marker)
                  \/ Head(args) = Marker /\ Len(args) > 1 ]_vars
    /\ [][ (pc = "scan" /\ pc' = "done") => args' = << >> ]_vars

\* --n x fails to parse, and the pass still goes on to apply --n=1
C7_Witness ==
    /\ pc = "done"
    /\ input = << FlagToken(NameN), << "x" >>, FlagEqToken(NameN, << "1" >>) >>
    /\ parseErrs = << NumError("Atoi", << "x" >>) >>
    /\ heap[flagIndex[NameN]].target = 1
    /\ heap[flagIndex[NameN]].set

\* the constraints a descriptor's configuration keeps
Constrained(f) ==
    /\ ~(f.required /\ f.defaultValueSet)
    /\ f.isBool => (~f.required /\ ~f.defaultValueSet /\ f.placeholder = "")

\* the step is the call op on descriptor id, and it failed leaving every descriptor as it was
FailsOn(op, id) == lastCall' = Call(op, id, heap[id].name) => (panicked' /\ heap' = heap)

(* C8: after any sequence of Placeholder, Default, Required and Env calls on  *)
(* a descriptor, panicking calls included, the descriptor is never both      *)
(* required and holding a default, and a boolean descriptor is never         *)
(* required, never holds a default and never has a placeholder; Required on  *)
(* a descriptor with a default panics, Default on a required descriptor      *)
(* panics, and Required, Default and Placeholder each panic on a boolean     *)
(* descriptor; a call that panics leaves the descriptor unchanged.           *)
C8_DescriptorConstraints ==
    /\ [](\A id \in DOMAIN heap : Constrained(heap[id]))
    /\ [][ \A id \in DOMAIN heap :
               /\ heap[id].defaultValueSet => FailsOn("Required", id)
               /\ heap[id].required => FailsOn("Default", id)
               /\ heap[id].isBool =>
                      /\ FailsOn("Required", id)
                      /\ FailsOn("Default", id)
                      /\ FailsOn("Placeholder", id) ]_vars

\* Required has just panicked on an int descriptor that holds the default 5
C8_Witness ==
    /\ panicked
    /\ lastCall = Call("Required", 1, NameN)
    /\ heap[1].kind = "int"
    /\ heap[1].defaultValueSet
    /\ heap[1].defaultValue = 5
    /\ ~heap[1].required

\* the ordered sequence and the name index agree, and names are unique
RegistryConsistent ==
    /\ \A i, j \in DOMAIN flags :
           i # j => (flags[i] # flags[j] /\ heap[flags[i]].name # heap[flags[j]].name)
    /\ { flags[i] : i \in DOMAIN flags } = RegisteredIds
    /\ Len(flags) = Cardinality(DOMAIN flagIndex)
    /\ \A n \in DOMAIN flagIndex : heap[flagIndex[n]].name = n

(* C9: after any sequence of registrations no two registered descriptors     *)
(* share a name, and the ordered sequence and the name index hold exactly    *)
(* the same descriptors.  A registration of a name already in the index (the *)
(* auto-registered help and version names included) panics and leaves the    *)
(* sequence and the index unchanged; any other registration appends the new  *)
(* descriptor to the sequence and inserts it into the index under its name.  *)
C9_RegistryConsistent ==
    /\ []RegistryConsistent
    /\ [][ lastCall'.op = "register" =>
               LET name == lastCall'.name
                   id   == Len(heap) + 1
               IN  IF name \in DOMAIN flagIndex
                   THEN /\ panicked'
                        /\ flags' = flags
                        /\ flagIndex' = flagIndex
                   ELSE /\ ~panicked'
                        /\ Len(heap') = id
                        /\ heap'[id].name = name
                        /\ flags' = Append(flags, id)
                        /\ DOMAIN flagIndex' = (DOMAIN flagIndex) \cup { name }
                        /\ flagIndex'[name] = id
                        /\ \A n \in DOMAIN flagIndex : flagIndex'[n] = flagIndex[n] ]_vars

\* p.String(..., "version", ...) has just panicked on a parser whose New registered
\* the version toggle, after n and s were registered
C9_Witness ==
    /\ panicked
    /\ lastCall = Call("register", 0, VersionName)
    /\ popts.appVersion # EmptyText
    /\ DOMAIN flagIndex = { HelpName, VersionName, NameN, NameS }
    /\ Len(flags) = 4

\* the errors for the required descriptors not yet set, in order of registration
MissingInInsertionOrder ==
    LET ids == SelectSeq(regOrder, LAMBDA id : heap[id].required /\ ~heap[id].set)
    IN  [i \in 1..Len(ids) |-> Err("missing required flag", "", heap[ids[i]].name)]

\* checkRequiredFlags has just returned checkErrs
Checked == lastCall.op = "checkRequiredFlags"

\* an empty token list was resolved on a parser with exactly one required descriptor,
\* which found no environment variable
EmptyRunOneRequired ==
    /\ input = << >>
    /\ Cardinality({ id \in RegisteredIds : heap[id].required }) = 1
    /\ \A id \in RegisteredIds : heap[id].required => ~EnvFound(heap[id])

(* C10 as stated: checkRequiredFlags returns exactly one "missing required   *)
(* flag" error for each required descriptor whose set flag is false and none *)
(* for any other descriptor, in registry insertion order, whatever ran       *)
(* before it (resolution passes, help rendering); and resolving an empty     *)
(* token list with one required flag that has no environment value yields    *)
(* exactly one missing-required error and no error from that flag's          *)
(* resolution.                                                               *)
C10_InsertionOrder ==
    Checked =>
        /\ checkErrs = MissingInInsertionOrder
        /\ EmptyRunOneRequired =>
               /\ Len(checkErrs) = 1
               /\ Len(parseErrs) = Cardinality(EnvFailures)

(* C10 without the order: the same errors, each exactly once, in some order. *)
C10_UpToOrder ==
    Checked =>
        /\ Len(checkErrs) = Len(MissingInInsertionOrder)
        /\ { checkErrs[i] : i \in DOMAIN checkErrs } =
               { MissingInInsertionOrder[i] : i \in DOMAIN MissingInInsertionOrder }
        /\ Cardinality({ checkErrs[i] : i \in DOMAIN checkErrs }) = Len(checkErrs)
        /\ EmptyRunOneRequired =>
               /\ Len(checkErrs) = 1
               /\ Len(parseErrs) = Cardinality(EnvFailures)

\* s was registered before n, both required and unset; after help rendering the check
\* reports n before s
C10_Witness ==
    /\ Checked
    /\ MissingInInsertionOrder = << Err("missing required flag", "", NameS),
                                    Err("missing required flag", "", NameN) >>
    /\ checkErrs = << Err("missing required flag", "", NameN),
                      Err("missing required flag", "", NameS) >>

\* the step is a set-from-string or set-from-environment call that returned an error
SetFailed == lastCall'.op \in { "setValueFromString:error", "setValueFromEnv:error" }

(* C11: a set-from-string whose text does not parse, the text coming from    *)
(* the caller or from the environment, returns an error and leaves the       *)
(* descriptor's target and set flag as they were; so a descriptor holding a  *)
(* default or an earlier written value keeps it.  The call fails exactly     *)
(* when the descriptor's parse function rejects the text.                    *)
C11_FailedParseKeepsValue ==
    /\ [][ SetFailed =>
               /\ heap' = heap
               /\ ParseFunc(heap[lastCall'.id].kind,
                            IF lastCall'.op = "setValueFromEnv:error"
                            THEN LookupEnv(env, heap[lastCall'.id].envVarName).val
                            ELSE lastCall'.name).err ]_vars
    /\ [][ lastCall'.op = "setValueFromString" =>
               ~ParseFunc(heap[lastCall'.id].kind, lastCall'.name).err ]_vars

\* an int descriptor holding its default 5 after set-from-string of x failed on it
C11_Witness ==
    /\ lastCall = Call("setValueFromString:error", 1, << "x" >>)
    /\ heap[1].kind = "int"
    /\ heap[1].defaultValue = 5
    /\ heap[1].target = 5
    /\ heap[1].set

\* the texts of the program's input that an error's message is formatted from
\* (a parse error's other part, the parsing function's name, is a word of strconv)
ErrArgs(e) == { e.text }

\* the pass has begun and the last call handed to Parser.set was for a registered
\* flag, with a text its parse function rejects
LastRoutedFails ==
    /\ pc \in { "scan", "done" }
    /\ setCalls # << >>
    /\ setCalls[Len(setCalls)][1] \in DOMAIN flagIndex
    /\ ParseFunc(heap[flagIndex[setCalls[Len(setCalls)][1]]].kind,
                 setCalls[Len(setCalls)][2]).err

\* the parse errors among the pass's errors whose message is formatted from text
ParseErrorsWith(text) ==
    { i \in DOMAIN parseErrs : parseErrs[i].kind = "parse" /\ text \in ErrArgs(parseErrs[i]) }

(* C12 as stated: every parse error produced by set-from-string, the text    *)
(* coming from the command line or from an environment variable, carries     *)
(* both the name of the offending flag and the raw text that failed to       *)
(* parse.                                                                    *)
C12_ErrorNamesFlagAndText ==
    /\ LastRoutedFails =>
           LET e == parseErrs[Len(parseErrs)]
           IN  /\ e.kind = "parse"
               /\ setCalls[Len(setCalls)][1] \in ErrArgs(e)
               /\ setCalls[Len(setCalls)][2] \in ErrArgs(e)
    /\ pc # "idle" =>
           \A id \in EnvFailures :
               \E i \in ParseErrorsWith(LookupEnv(env, heap[id].envVarName).val) :
                   heap[id].name \in ErrArgs(parseErrs[i])

(* C12 without the flag name: every such error carries the raw text.         *)
C12_ErrorCarriesText ==
    /\ LastRoutedFails =>
           /\ parseErrs[Len(parseErrs)].kind = "parse"
           /\ setCalls[Len(setCalls)][2] \in ErrArgs(parseErrs[Len(parseErrs)])
    /\ pc # "idle" =>
           \A id \in EnvFailures :
               ParseErrorsWith(LookupEnv(env, heap[id].envVarName).val) # {}

\* the pair --n x left one error, formatted from x and not from the flag's name n
C12_Witness ==
    /\ pc = "done"
    /\ input = << FlagToken(NameN), << "x" >> >>
    /\ parseErrs = << NumError("Atoi", << "x" >>) >>
    /\ NameN \notin ErrArgs(parseErrs[1])

\* the positions of the missing-required error for the flag name in checkErrs
MissingErrors(name) ==
    { i \in DOMAIN checkErrs : checkErrs[i] = Err("missing required flag", "", name) }

(* C13: for a required flag whose environment variable holds text that does  *)
(* not parse, resolving an empty token list yields exactly one parse error   *)
(* (for that text) and leaves the flag not set, and checkRequiredFlags       *)
(* afterwards yields exactly one missing-required error for that flag.       *)
C13_RequiredWithBadEnv ==
    (Checked /\ input = << >>) =>
        \A id \in RegisteredIds :
            (heap[id].required /\ id \in EnvFailures) =>
                /\ pc = "done"
                /\ parseErrs = << ParseFunc(heap[id].kind,
                                            LookupEnv(env, heap[id].envVarName).val).e >>
                /\ ~heap[id].set
                /\ Cardinality(MissingErrors(heap[id].name)) = 1

\* n required, N holding x, no token: one parse error, then one missing-required error
C13_Witness ==
    /\ Checked
    /\ input = << >>
    /\ NameN \in DOMAIN flagIndex
    /\ heap[flagIndex[NameN]].required
    /\ LookupEnv(env, EnvN).val = BadEnvText
    /\ parseErrs = << NumError("Atoi", BadEnvText) >>
    /\ checkErrs = << Err("missing required flag", "", NameN) >>

\* the step writes a value to descriptor id's target: the seed loop of a parse call
\* from its default or from an environment variable that parses, or a turn of the
\* token loop that hands the flag a text that parses
Written(id) ==
    \/ /\ pc = "idle"
       /\ pc' = "scan"
       /\ id \in RegisteredIds
       /\ heap[id].defaultValueSet \/ EnvParses(heap[id])
    \/ /\ pc = "scan"
       /\ Len(setCalls') = Len(setCalls) + 1
       /\ LET c == setCalls'[Len(setCalls')]
          IN  /\ c[1] \in DOMAIN flagIndex
              /\ flagIndex[c[1]] = id
              /\ ~ParseFunc(heap[id].kind, c[2]).err

(* C14: a descriptor's set flag is false at creation; it becomes true at the *)
(* first successful write to its target (from the default, the environment   *)
(* or the command line) and only then; no later operation resets it, a later *)
(* overwrite and a later failed parse included; and a flag with a default    *)
(* and no other source is set, with its target equal to the default, after   *)
(* an empty token list has been resolved.                                    *)
C14_SetFlag ==
    /\ [](lastCall.op = "New" => \A id \in DOMAIN heap : ~heap[id].set)
    /\ [][ \A id \in DOMAIN heap' :
               IF id \in DOMAIN heap
               THEN heap'[id].set <=> (heap[id].set \/ Written(id))
               ELSE ~heap'[id].set ]_vars
    /\ [](Finished /\ input = << >> =>
              \A id \in RegisteredIds :
                  (heap[id].defaultValueSet /\ ~EnvFound(heap[id])) =>
                      heap[id].set /\ heap[id].target = heap[id].defaultValue)

\* n seeded from its default 5, overwritten by --n=1, still set after --n failed to parse
C14_Witness ==
    /\ pc = "done"
    /\ input = << FlagEqToken(NameN, << "1" >>), FlagToken(NameN) >>
    /\ NameN \in DOMAIN flagIndex
    /\ heap[flagIndex[NameN]].defaultValue = 5
    /\ heap[flagIndex[NameN]].target = 1
    /\ heap[flagIndex[NameN]].set
    /\ parseErrs # << >>
    /\ parseErrs[Len(parseErrs)] = NumError("Atoi", TrueText)

\* the descriptors New registered itself: the help toggle, and the version toggle
ToggleIds ==
    { flagIndex[n] : n \in { popts.helpFlagName, popts.appVersionFlagName } \cap DOMAIN flagIndex }
        \ CallerIds

(* C15: set-from-environment changes nothing and returns no error when the   *)
(* descriptor's environment name is empty or the named variable is absent,   *)
(* called directly or by a resolution pass's seed loop (which then leaves    *)
(* the descriptor as its default alone leaves it); the help and version      *)
(* toggles always have the empty environment name, so do the flags of a      *)
(* parser built with WithoutAutoEnv until Env names a variable, and so does  *)
(* a flag after Env(""): none of them is set from the environment, whatever  *)
(* it holds.                                                                 *)
C15_EnvNoOp ==
    /\ [][ (lastCall'.op \in { "setValueFromEnv", "setValueFromEnv:error" }
              /\ ~EnvFound(heap[lastCall'.id])) =>
               heap' = heap /\ lastCall'.op = "setValueFromEnv" ]_vars
    /\ [][ (pc = "idle" /\ pc' = "scan") =>
               \A id \in RegisteredIds :
                   ~EnvFound(heap[id]) =>
                       heap'[id] = IF heap[id].defaultValueSet
                                   THEN [heap[id] EXCEPT !.target = heap[id].defaultValue,
                                                         !.set = TRUE]
                                   ELSE heap[id] ]_vars
    /\ [][ (pc = "idle" /\ pc' = "scan") => Len(parseErrs') = Cardinality(EnvFailures) ]_vars
    /\ [](\A id \in ToggleIds : heap[id].envVarName = EmptyText /\ ~EnvFound(heap[id]))
    /\ []((lastCall.op = "New" /\ ~popts.autoEnv) =>
              \A id \in DOMAIN heap : heap[id].envVarName = EmptyText)
    /\ [][ \A id \in DOMAIN heap :
               lastCall' = Call("Env", id, heap[id].name) =>
                   (heap'[id].envVarName = EmptyText => ~EnvFound(heap'[id])) ]_vars

\* a parser built with WithoutAutoEnv resolved an empty list with N, HELP and VERSION
\* all present: nothing was set
C15_Witness ==
    /\ pc = "done"
    /\ ~popts.autoEnv
    /\ input = << >>
    /\ DOMAIN env = { EnvN, EnvHelp, EnvVersion }
    /\ \A id \in DOMAIN heap : ~heap[id].set /\ heap[id].envVarName = EmptyText
    /\ parseErrs = << >>

\* the errors that handing the calls, in order, to the flags they name produces
RECURSIVE RoutedErrors(_)
RoutedErrors(calls) ==
    IF calls = << >> THEN << >>
    ELSE LET c == Head(calls)
         IN  (IF c[1] \notin DOMAIN flagIndex
              THEN << Err("unknown flag", "", c[1]) >>
              ELSE IF ParseFunc(heap[flagIndex[c[1]]].kind, c[2]).err
              THEN << ParseFunc(heap[flagIndex[c[1]]].kind, c[2]).e >>
              ELSE << >>) \o RoutedErrors(Tail(calls))

\* e is the error of a registered flag's environment variable that fails to parse
IsSeedError(e) ==
    \E id \in EnvFailures :
        e = ParseFunc(heap[id].kind, LookupEnv(env, heap[id].envVarName).val).e

\* s is what is left of t after some of its first elements are dropped
IsSuffix(s, t) == Len(s) <= Len(t) /\ s = SubSeq(t, Len(t) - Len(s) + 1, Len(t))

(* C16: the error list of one resolution pass holds the seed pass's errors   *)
(* (one per environment variable that fails to parse) first, then the        *)
(* tokenizer's errors in the left-to-right order of the tokens that caused   *)
(* them; tokens are consumed from the left, every turn keeps the errors      *)
(* collected so far and adds at most one at the end, and a halt adds its one *)
(* error after all the earlier ones and returns them all.                    *)
C16_ErrorOrder ==
    /\ [](pc # "idle" =>
              LET k == Cardinality(EnvFailures)
                  t == RoutedErrors(setCalls)
                  h == IF pc = "halted" THEN 1 ELSE 0
              IN  /\ Len(parseErrs) = k + Len(t) + h
                  /\ \A i \in 1..k : IsSeedError(parseErrs[i])
                  /\ SubSeq(parseErrs, k + 1, k + Len(t)) = t
                  /\ pc = "halted" =>
                         parseErrs[Len(parseErrs)].kind \in
                             { "unexpected argument", "unexpected arguments" }
                  /\ IsSuffix(args, input))
    /\ [][ pc = "scan" =>
               /\ IsSuffix(args', args)
               /\ \/ parseErrs' = parseErrs
                  \/ /\ Len(parseErrs') = Len(parseErrs) + 1
                     /\ SubSeq(parseErrs', 1, Len(parseErrs)) = parseErrs
                     /\ Len(args') < Len(args) ]_vars

\* N fails to parse, --u=1 is unknown, x halts the pass: three errors in that order
C16_Witness ==
    /\ pc = "halted"
    /\ input = << FlagEqToken(NameU, << "1" >>), << "x" >>, FlagEqToken(NameN, << "1" >>) >>
    /\ parseErrs = << NumError("Atoi", BadEnvText), Err("unknown flag", "", NameU),
                      Err("unexpected argument", "", << "x" >>) >>

\* Parse has ended, by an exit or by coming back to its caller
Decided == exitStatus # "running"

\* the required descriptors not set, as a set
Unsatisfied == { id \in RegisteredIds : heap[id].required /\ ~heap[id].set }

\* what printErrs writes for a list of errors: the errors, then the hint
ErrorsAndHint(errs) ==
    << [stream |-> "stderr", block |-> "errors", errs |-> errs],
       [stream |-> "stderr", block |-> "hint", errs |-> << >>] >>

OneBlock(block) == << [stream |-> "stdout", block |-> block, errs |-> << >>] >>

(* C17: Parse decides its outcome in a fixed priority order.  Any error of   *)
(* the resolution pass: the errors and the hint are printed and the process  *)
(* exits with failure, even with the help or version toggle set.  Otherwise  *)
(* a set help toggle: usage is printed, exit with success.  Otherwise a set  *)
(* version toggle: the version is printed, exit with success.  Missing       *)
(* required flags are computed only when none of these holds, and reported   *)
(* with the hint and a failing exit; only when there is none either does     *)
(* Parse return to its caller, having printed nothing.                       *)
C17_ParsePriority ==
    /\ ~Decided => output = << >>
    /\ Decided =>
           IF parseErrs # << >>
           THEN /\ exitStatus = "exit 1"
                /\ output = ErrorsAndHint(parseErrs)
                /\ checkErrs = << >>
           ELSE IF helpCalled
           THEN /\ exitStatus = "exit 0"
                /\ output = OneBlock("usage")
                /\ checkErrs = << >>
           ELSE IF versionCalled
           THEN /\ exitStatus = "exit 0"
                /\ output = OneBlock("version")
                /\ checkErrs = << >>
           ELSE IF Unsatisfied # {}
           THEN /\ exitStatus = "exit 1"
                /\ Len(checkErrs) = Cardinality(Unsatisfied)
                /\ output = ErrorsAndHint(checkErrs)
           ELSE /\ exitStatus = "returned"
                /\ output = << >>

\* --help --version on a parser with no version: the help toggle is set, and the
\* unknown flag still makes Parse fail
C17_Witness ==
    /\ exitStatus = "exit 1"
    /\ input = << FlagToken(HelpName), FlagToken(VersionName) >>
    /\ helpCalled
    /\ output = ErrorsAndHint(<< Err("unknown flag", "", VersionName) >>)

\* the blocks of kind block among what Parse printed
Printed(block) == { i \in DOMAIN output : output[i].block = block }

(* C18 as stated: whenever the resolution pass run by Parse produces any     *)
(* flag parsing error, Parse prints the help message (the usage text) before *)
(* the process exits.                                                        *)
C18_HelpPrintedOnErrors ==
    (Decided /\ parseErrs # << >>) => Printed("usage") # {}

(* C18 as the code has it: on any error of the pass Parse prints the errors  *)
(* and the hint that names the help flag, and no usage text.                 *)
C18_HintPrintedOnErrors ==
    (Decided /\ parseErrs # << >>) =>
        /\ exitStatus = "exit 1"
        /\ Printed("errors") # {}
        /\ Printed("hint") # {}
        /\ Printed("usage") = {}

\* the command line x: Parse exits with failure having printed the error and the hint only
C18_Witness ==
    /\ exitStatus = "exit 1"
    /\ input = << << "x" >> >>
    /\ parseErrs = << Err("unexpected argument", "", << "x" >>) >>
    /\ output = ErrorsAndHint(parseErrs)
    /\ Printed("usage") = {}

\* the registry holds, under name, a boolean toggle that New registered as its k-th flag
HoldsToggle(name, k) ==
    /\ name \in DOMAIN flagIndex
    /\ heap[flagIndex[name]].isBool
    /\ heap[flagIndex[name]].name = name
    /\ Len(regOrder) >= k
    /\ flagIndex[name] = regOrder[k]

(* C19: after New returns the registry always holds a boolean help toggle    *)
(* under the configured help flag name, and holds a boolean version toggle   *)
(* under the configured version flag name if and only if a non-empty version *)
(* string was configured (a toggle of its own: with both names configured    *)
(* alike and no version, the descriptor under that name is the help toggle); *)
(* the names are the options' (help and version when none is given), and     *)
(* right after New the registry holds nothing else.                          *)
C19_Toggles ==
    /\ HoldsToggle(popts.helpFlagName, 1)
    /\ popts.appVersion # EmptyText <=>
           /\ popts.appVersionFlagName \in DOMAIN flagIndex
           /\ heap[flagIndex[popts.appVersionFlagName]].isBool
           /\ flagIndex[popts.appVersionFlagName] # flagIndex[popts.helpFlagName]
    /\ popts.appVersion # EmptyText => HoldsToggle(popts.appVersionFlagName, 2)
    /\ lastCall.op = "New" =>
           DOMAIN flagIndex =
               { popts.helpFlagName } \cup
                   (IF popts.appVersion # EmptyText THEN { popts.appVersionFlagName } ELSE {})
    /\ popts = DefaultOptions => HoldsToggle(<< "h", "e", "l", "p" >>, 1)
    /\ popts = WithAppVersion(DefaultOptions, << "1" >>) =>
           HoldsToggle(<< "v", "e", "r", "s", "i", "o", "n" >>, 2)

\* New(WithHelpFlagName("v"), WithAppVersion("1")), then n, s and a bool flag help
\* registered and the help rendered: the toggles are v and version
C19_Witness ==
    /\ popts.helpFlagName = NameV
    /\ popts.appVersionFlagName = VersionName
    /\ popts.appVersion # EmptyText
    /\ lastCall.op = "printHelp"
    /\ DOMAIN flagIndex = { NameV, VersionName, NameN, NameS, HelpName }
    /\ HoldsToggle(NameV, 1)
    /\ HoldsToggle(VersionName, 2)

\* the descriptors as configured, before any pass: targets and set flags as created
Fresh(h) == [i \in DOMAIN h |-> [h[i] EXCEPT !.target = ZeroValue(h[i].kind), !.set = FALSE]]

\* what a first pass over input in environment env leaves, for some order of the seed loop
FirstPassResults ==
    { parse(Fresh(heap), flagIndex, env, order, input) :
        order \in KeyOrders(Fresh(heap), flagIndex, env) }

(* C20 as stated: no descriptor state carries over between resolution        *)
(* passes.  When a pass has returned, the descriptors (targets and set       *)
(* flags) and the errors are what a first pass on the same registry          *)
(* configuration, environment and token list leaves, whatever passes ran     *)
(* before it.                                                                *)
C20_PassesIndependent ==
    Finished =>
        \E r \in FirstPassResults :
            /\ parseErrs = r.errs
            /\ \A id \in DOMAIN heap : heap[id] = r.heap[id]

(* C20 for what the pass itself writes: the errors are those of a first      *)
(* pass, and so is every descriptor that has a default or that a first pass  *)
(* sets.                                                                     *)
C20_WrittenIndependent ==
    Finished =>
        \E r \in FirstPassResults :
            /\ parseErrs = r.errs
            /\ \A id \in DOMAIN heap :
                   (heap[id].defaultValueSet \/ r.heap[id].set) => heap[id] = r.heap[id]

\* n has no default and no environment variable, the empty list was resolved, and n
\* still holds the 1 that an earlier pass's command line wrote
C20_Witness ==
    /\ pc = "done"
    /\ input = << >>
    /\ ~heap[flagIndex[NameN]].defaultValueSet
    /\ ~EnvFound(heap[flagIndex[NameN]])
    /\ heap[flagIndex[NameN]].set
    /\ heap[flagIndex[NameN]].target = 1
    /\ \A r \in FirstPassResults : ~r.heap[flagIndex[NameN]].set

\* the step is a parse call's seed loop
Seeding == pc = "idle" /\ pc' = "scan"

\* descriptor f as its own default and environment variable leave it
SeededAlone(f) ==
    LET d == IF f.defaultValueSet
             THEN [f EXCEPT !.target = f.defaultValue, !.set = TRUE]
             ELSE f
    IN  IF EnvParses(f) THEN [d EXCEPT !.target = EnvValue(f), !.set = TRUE] ELSE d

\* the error of descriptor id's environment variable
EnvError(id) == ParseFunc(heap[id].kind, LookupEnv(env, heap[id].envVarName).val).e

(* C21: the seed pass seeds every registered descriptor, default first and   *)
(* then environment, whatever happens to the others.  After it each          *)
(* descriptor is as its own default and environment variable alone leave it  *)
(* (the environment value over the default when it parses, the default kept  *)
(* when it does not); each environment value that fails to parse adds        *)
(* exactly one error; and the token loop then starts on the whole argument   *)
(* list and can take its turn, whatever errors the seed pass collected.      *)
C21_SeedPass ==
    /\ [][ Seeding =>
               /\ \A id \in RegisteredIds : heap'[id] = SeededAlone(heap[id])
               /\ Len(parseErrs') = Cardinality(EnvFailures)
               /\ \A id \in EnvFailures :
                      Cardinality({ i \in DOMAIN parseErrs' : parseErrs'[i] = EnvError(id) }) = 1
               /\ args' = input'
               /\ setCalls' = << >> ]_vars
    /\ [](pc = "scan" => ENABLED ParseStep)

\* N and V fail to parse, S is read: n keeps its default until --n=1, s holds x,
\* and the pass ran to its end with the two seed errors
C21_Witness ==
    /\ pc = "done"
    /\ input = << FlagEqToken(NameN, << "1" >>) >>
    /\ DOMAIN env = { EnvN, EnvS, EnvV }
    /\ env[EnvN] = BadEnvText
    /\ heap[flagIndex[NameN]].defaultValue = 5
    /\ heap[flagIndex[NameN]].target = 1
    /\ heap[flagIndex[NameS]].target = BadEnvText
    /\ heap[flagIndex[NameS]].set
    /\ ~heap[flagIndex[NameV]].set
    /\ parseErrs = << NumError("ParseBool", BadEnvText), NumError("Atoi", BadEnvText) >>

\* the turn reads --name for a name that is not registered, followed by a token
\* that does not start with "--"
AtUnknownPair ==
    /\ AtToken
    /\ PlainFlagToken(Head(args))
    /\ SubSeq(Head(args), 3, Len(Head(args))) \notin DOMAIN flagIndex
    /\ Len(args) >= 2
    /\ ~HasPrefix(args[2], Marker)

(* C22: an unknown flag in the two-token form consumes the following token   *)
(* as its value.  The turn appends exactly one error, the unknown-flag error *)
(* for that name, so the value token is not reported as an unexpected        *)
(* argument; no descriptor changes; and the loop goes on scanning at the     *)
(* token after the value.                                                    *)
C22_UnknownPair ==
    [][ AtUnknownPair =>
            /\ parseErrs' = Append(parseErrs,
                                   Err("unknown flag", "", SubSeq(Head(args), 3, Len(Head(args)))))
            /\ \A i \in DOMAIN parseErrs' : i > Len(parseErrs) =>
                   parseErrs'[i].kind # "unexpected argument"
            /\ args' = SubSeq(args, 3, Len(args))
            /\ pc' = "scan"
            /\ heap' = heap ]_vars

\* --u x --n=1: one unknown-flag error for the pair, and n is set by the token
\* after the value
C22_Witness ==
    /\ pc = "done"
    /\ input = << FlagToken(NameU), << "x" >>, FlagEqToken(NameN, << "1" >>) >>
    /\ parseErrs = << Err("unknown flag", "", NameU) >>
    /\ setCalls = << << NameU, << "x" >> >>, << NameN, << "1" >> >> >>
    /\ heap[flagIndex[NameN]].target = 1

\* the step leaves the descriptors, the errors and the tokens as they are
PassFrozenBut ==
    /\ heap' = heap
    /\ parseErrs' = parseErrs
    /\ setCalls' = setCalls
    /\ args' = args

\* where the turn at the head of args leaves the loop
TurnTarget ==
    IF ~HasPrefix(Head(args), Marker) THEN "halted"
    ELSE IF Head(args) = Marker
         THEN (IF Len(args) > 1 THEN "halted" ELSE "done")
         ELSE "scan"

(* C23: the tokenizer terminates on every finite token list.  It starts     *)
(* scanning at the first token; what is left to read is always a suffix of  *)
(* the list; every turn drops one or two tokens from the front and either   *)
(* goes on scanning, ends in done (a final bare "--") or halts (a token     *)
(* without "--", or tokens after "--"); with no token left the loop ends in *)
(* done; after done or halted no token is consumed and no descriptor        *)
(* changes; and every scan reaches done or halted.                          *)
C23_TokenizerTerminates ==
    /\ [][ Seeding => args' = input' ]_vars
    /\ [](pc # "idle" => IsSuffix(args, input))
    /\ [][ AtToken =>
               /\ \/ args' = Tail(args)
                  \/ Len(args) >= 2 /\ args' = Tail(Tail(args))
               /\ pc' = TurnTarget ]_vars
    /\ [][ (pc = "scan" /\ args = << >>) => (pc' = "done" /\ PassFrozenBut) ]_vars
    /\ [][ Finished => PassFrozen ]_vars
    /\ [](Finished => ~ENABLED ParseStep)
    /\ (pc = "scan") ~> Finished

\* --n 1 read as one pair, the loop left with nothing to read, and the required
\* flags checked after it with the descriptors as the pass left them
C23_Witness ==
    /\ pc = "done"
    /\ input = << FlagToken(NameN), << "1" >> >>
    /\ args = << >>
    /\ setCalls = << << NameN, << "1" >> >> >>
    /\ heap[flagIndex[NameN]].target = 1
    /\ lastCall = Call("checkRequiredFlags", 0, EmptyText)

\* the flag name a token starting with "--" is about: the text after "--", up
\* to its first "=" when it has one
TokenName(t) ==
    LET arg == TrimPrefix(t, Marker)
    IN  IF Index(arg, "=") = -1 THEN arg ELSE SubSeq(arg, 1, Index(arg, "="))

\* the step leaves descriptor id's configuration as it is
SameConfiguration(id) ==
    /\ heap'[id].name = heap[id].name
    /\ heap'[id].kind = heap[id].kind
    /\ heap'[id].isBool = heap[id].isBool
    /\ heap'[id].required = heap[id].required
    /\ heap'[id].defaultValue = heap[id].defaultValue
    /\ heap'[id].defaultValueSet = heap[id].defaultValueSet
    /\ heap'[id].envVarName = heap[id].envVarName
    /\ heap'[id].placeholder = heap[id].placeholder

(* C24: processing a command-line token for flag name n changes at most the  *)
(* target and the set flag of the descriptor registered under n.  Every step *)
(* of the token loop leaves the registry's sequence and index and every      *)
(* descriptor's configuration (required, default, environment name,          *)
(* placeholder) unchanged; a turn at a token for name n leaves every         *)
(* descriptor other than the one registered under n unchanged; and a turn at *)
(* a token for an unregistered name, like a turn at a token that names no    *)
(* flag, changes no descriptor at all.                                       *)
C24_TokenFrame ==
    [][ pc = "scan" =>
            /\ flags' = flags
            /\ flagIndex' = flagIndex
            /\ regOrder' = regOrder
            /\ DOMAIN heap' = DOMAIN heap
            /\ \A id \in DOMAIN heap : SameConfiguration(id)
            /\ IF AtToken /\ HasPrefix(Head(args), Marker)
                          /\ TokenName(Head(args)) \in DOMAIN flagIndex
               THEN \A id \in DOMAIN heap :
                        id # flagIndex[TokenName(Head(args))] => heap'[id] = heap[id]
               ELSE \A id \in DOMAIN heap : heap'[id] = heap[id] ]_vars

\* --n=1 --u: n holds 1 and is set, s is as the seed pass left it, and the
\* unregistered u left one error and no trace in the descriptors
C24_Witness ==
    /\ pc = "done"
    /\ input = << FlagEqToken(NameN, << "1" >>), FlagToken(NameU) >>
    /\ heap[flagIndex[NameN]].target = 1
    /\ heap[flagIndex[NameN]].set
    /\ heap[flagIndex[NameN]].required
    /\ ~heap[flagIndex[NameS]].set
    /\ heap[flagIndex[NameS]].target = ZeroValue("string")
    /\ parseErrs = << Err("unknown flag", "", NameU) >>

====
